---- MODULE Spec2Model ----
(***************************************************************************)
(* Model of scraper.py: the two deal scrapers (scrape_hotukdeals,          *)
(* scrape_latestdeals), the Discord notifier (send_to_discord) and the     *)
(* __main__ block.                                                         *)
(*                                                                         *)
(* Text is a sequence of tokens (strings); a token is a run of characters  *)
(* that the code never splits.  An optional value is a sequence of length  *)
(* at most one.  The program is run side by side under both settings of    *)
(* DISCORD_WEBHOOK_URL (frame[TRUE]: set, frame[FALSE]: unset) on the same *)
(* network inputs, so that the two runs can be compared.  A fetched page   *)
(* is consumed in the order the code reads it: the number of listing       *)
(* fragments at the fetch, each fragment when the for loop reaches it, the *)
(* pagination elements when the code looks for them.                       *)
(***************************************************************************)
EXTENDS Integers, Sequences, FiniteSets, TLC

VARIABLES frame, caller, last

vars == <<frame, caller, last>>

\* ------------------------------------------------------------------ bounds
MaxPages == 2
MaxFrags == 2

\* --------------------------------------------------------------- constants
Cfg == BOOLEAN

Sites == {"HotUKDeals", "LatestDeals"}

NA == <<"N/A">>

EmptyText == <<>>

Whitespace == {" ", "\n"}

base_url(site) ==
    IF site = "HotUKDeals"
    THEN <<"https:", "//www.hotukdeals.com", "/">>
    ELSE <<"https:", "//www.latestdeals.co.uk", "/deals">>

HasScheme(u) == Len(u) > 0 /\ u[1] \in {"http:", "https:"}

\* ------------------------------------------------------------ str.strip()
RECURSIVE LStrip(_)
LStrip(s) ==
    IF s # <<>> /\ Head(s) \in Whitespace THEN LStrip(Tail(s)) ELSE s

RECURSIVE RStrip(_)
RStrip(s) ==
    IF s # <<>> /\ s[Len(s)] \in Whitespace
    THEN RStrip(SubSeq(s, 1, Len(s) - 1))
    ELSE s

Strip(s) == RStrip(LStrip(s))

\* ------------------------------------------------------- network inputs
AbsLink == <<"https:", "//www.hotukdeals.com", "/deals/1">>
RelLink == <<"/deals/1">>
ImgSrc == <<"https:", "//img.example", "/1.jpg">>

\* A listing fragment as the selectors of the for loop see it:
\*   h2     the title heading is present
\*   a      the heading holds the title anchor
\*   text   the anchor's text
\*   href   the anchor's href attribute, when it has one
\*   price  the text of the price span, when there is one
\*   metric the text of the heat / likes span, when there is one
\*   img    the image tag is present
\*   src    the image's src attribute, when it has one
Complete ==
    [h2 |-> TRUE, a |-> TRUE, text |-> <<" ", "Widget", " ">>,
     href |-> <<AbsLink>>, price |-> <<<<"GBP9.99">>>>,
     metric |-> <<<<"100">>>>, img |-> TRUE, src |-> <<ImgSrc>>]

\* The same fragment with every variation an accepted record can carry: a
\* relative href, a title and a price that strip to nothing, no metric span,
\* no image.
Bare ==
    [Complete EXCEPT !.text = <<" ">>, !.href = <<RelLink>>,
                     !.price = <<<<"\n">>>>, !.metric = <<>>,
                     !.img = FALSE, !.src = <<>>]

Fragments ==
    { Complete,
      Bare,
      [Complete EXCEPT !.h2 = FALSE],
      [Complete EXCEPT !.a = FALSE],
      [Complete EXCEPT !.href = <<>>],
      [Complete EXCEPT !.price = <<>>],
      [Complete EXCEPT !.text = <<" ", "N/A">>],
      [Bare EXCEPT !.h2 = FALSE, !.price = <<>>] }

NoFrag == [Complete EXCEPT !.h2 = FALSE, !.a = FALSE, !.price = <<>>,
                           !.metric = <<>>, !.img = FALSE, !.src = <<>>]

NextAbs == <<"https:", "//www.hotukdeals.com", "/?page=2">>
NextRel == <<"?page=2">>
MoreAbs == <<"https:", "//www.hotukdeals.com", "/more">>

\* The pagination elements of a page:
\*   li        the next-page list item is present
\*   a         it holds the anchor the code looks for
\*   href      that anchor's href, when it has one
\*   more      the load-more anchor is present
\*   more_href its href, when it has one
Paginations ==
    { p \in [li : BOOLEAN, a : BOOLEAN, href : {<<>>, <<NextAbs>>, <<NextRel>>},
             more : BOOLEAN, more_href : {<<>>, <<MoreAbs>>}] :
        /\ (~p.li => ~p.a)
        /\ (~p.a => p.href = <<>>)
        /\ (~p.more => p.more_href = <<>>) }

NoPagination ==
    [li |-> FALSE, a |-> FALSE, href |-> <<>>, more |-> FALSE, more_href |-> <<>>]

\* requests.get: a RequestException, or a page with n listing fragments
FetchErrors == {"network_error", "timeout", "http_error"}

FetchOutcomes ==
    {[status |-> e, n |-> 0] : e \in FetchErrors}
        \cup {[status |-> "ok", n |-> k] : k \in 0..MaxFrags}

\* requests.post + raise_for_status: success, HTTP 429 (a rate limit), another
\* error status, or a connection error / timeout
PostOutcomes == {"ok", "rate_limited", "http_error", "network_error"}

NoFetch == [status |-> "none", n |-> 0]

NoLast ==
    [kind |-> "init", fetch |-> NoFetch, frag |-> NoFrag, post |-> "none",
     pag |-> NoPagination]

\* ------------------------------------------------------- field extraction
Extract(site, f) ==
    [title |-> IF f.h2 /\ f.a THEN Strip(f.text) ELSE NA,
     link |-> IF f.h2 /\ f.a /\ f.href # <<>> THEN f.href[1] ELSE NA,
     price |-> IF f.price # <<>> THEN Strip(f.price[1]) ELSE NA,
     metric |-> IF f.metric # <<>> THEN Strip(f.metric[1])
                ELSE IF site = "HotUKDeals" THEN NA ELSE <<"0">>,
     image_url |-> IF f.img /\ f.src # <<>> THEN f.src[1] ELSE EmptyText]

\* the validity test written as a truthiness test: an empty title or price
\* is rejected too
Accepted_truthy(r) ==
    /\ r.title # NA /\ r.title # EmptyText
    /\ r.link # NA
    /\ r.price # NA /\ r.price # EmptyText

Accepted(r) == r.title # NA /\ r.link # NA /\ r.price # NA

deal_item(site, r) ==
    [title |-> r.title,
     price |-> r.price,
     link |-> r.link,
     image_url |-> r.image_url,
     metric_info |-> IF site = "HotUKDeals"
                     THEN <<"fire", " ">> \o r.metric \o <<" ", "Heat">>
                     ELSE <<"thumbsup", " ">> \o r.metric \o <<" ", "Likes">>,
     discount_info |-> NA]

\* ----------------------------------------------------------- the notifier
\* the notifier without a webhook URL raises instead of returning
send_to_discord_raises(webhook, outcome) ==
    IF ~webhook
    THEN [posts |-> 0, delivered |-> FALSE, raised |-> TRUE]
    ELSE [posts |-> 1, delivered |-> (outcome = "ok"), raised |-> FALSE]

\* the notifier lets a failed delivery's exception out
send_to_discord_propagates(webhook, outcome) ==
    IF ~webhook
    THEN [posts |-> 0, delivered |-> FALSE, raised |-> FALSE]
    ELSE [posts |-> 1, delivered |-> (outcome = "ok"), raised |-> (outcome # "ok")]

\* The result of one call: the number of outbound POSTs it issued, whether
\* the delivery succeeded, and whether an exception left the function.
send_to_discord(webhook, outcome) ==
    IF ~webhook
    THEN [posts |-> 0, delivered |-> FALSE, raised |-> FALSE]
    ELSE [posts |-> 1, delivered |-> (outcome = "ok"), raised |-> FALSE]

\* ------------------------------------------------------------ pagination
\* the load-more anchor is also tried when the next-page item has no href
NextTarget_fallthrough(site, p) ==
    IF p.li /\ p.a /\ p.href # <<>>
    THEN p.href
    ELSE IF site = "HotUKDeals" /\ p.more /\ p.more_href # <<>>
         THEN p.more_href
         ELSE <<>>

NextTarget(site, p) ==
    IF p.li
    THEN IF p.a /\ p.href # <<>> THEN p.href ELSE <<>>
    ELSE IF site = "HotUKDeals" /\ p.more /\ p.more_href # <<>>
         THEN p.more_href
         ELSE <<>>

\* ------------------------------------------------- a scraper call's frame
\* The locals of the running scraper call and of __main__, and what the run
\* has done so far on the network:
\*   fetches    the GETs issued by this call
\*   requested  the URL of the last GET
\*   failed     a GET of this call failed
\*   invoked    the records send_to_discord was called with, in order
\*   posts      the POSTs issued so far
\*   attempts   the POSTs issued for the last fragment processed
NewCall(site, max_pages, hukd_deals, invoked, posts) ==
    [site |-> site, max_pages |-> max_pages,
     deals_found |-> <<>>, page_num |-> 1, current_url |-> base_url(site),
     products |-> 0, pc |-> "while", result |-> <<>>,
     hukd_deals |-> hukd_deals, ld_deals |-> <<>>, total_deals_found |-> 0,
     fetches |-> 0, requested |-> <<>>, failed |-> FALSE,
     invoked |-> invoked, posts |-> posts, attempts |-> 0]

\* the loop test off by one
WhileCond_offByOne(s) == s.page_num <= s.max_pages + 1

WhileCond(s) == s.page_num <= s.max_pages

\* line 67, loop test false: fall out of the loop
ExitStep(s) ==
    IF s.pc = "while" /\ ~WhileCond(s)
    THEN [s EXCEPT !.pc = "return"]
    ELSE s

\* a failed GET is tried again instead of ending the loop
FetchStep_retry(s, out) ==
    IF s.pc = "while" /\ WhileCond(s)
    THEN IF out.status # "ok" \/ ~HasScheme(s.current_url)
         THEN [s EXCEPT !.fetches = @ + 1, !.requested = s.current_url,
                        !.failed = TRUE]
         ELSE IF out.n = 0
              THEN [s EXCEPT !.fetches = @ + 1, !.requested = s.current_url,
                             !.pc = "return"]
              ELSE [s EXCEPT !.fetches = @ + 1, !.requested = s.current_url,
                             !.products = out.n, !.pc = "for"]
    ELSE s

\* lines 67-86: loop test true, GET current_url, find the listing fragments
FetchStep(s, out) ==
    IF s.pc = "while" /\ WhileCond(s)
    THEN IF out.status # "ok" \/ ~HasScheme(s.current_url)
         THEN [s EXCEPT !.fetches = @ + 1, !.requested = s.current_url,
                        !.failed = TRUE, !.pc = "return"]
         ELSE IF out.n = 0
              THEN [s EXCEPT !.fetches = @ + 1, !.requested = s.current_url,
                             !.pc = "return"]
              ELSE [s EXCEPT !.fetches = @ + 1, !.requested = s.current_url,
                             !.products = out.n, !.pc = "for"]
    ELSE s

\* the record is appended only once its delivery has succeeded
ProcessStep_appendOnDelivery(s, webhook, f, outcome) ==
    IF s.pc = "for"
    THEN LET r == Extract(s.site, f)
             left == s.products - 1
             after == IF left = 0 THEN "paginate" ELSE "for"
         IN IF Accepted(r)
            THEN LET deal == deal_item(s.site, r)
                     snd == send_to_discord(webhook, outcome)
                 IN [s EXCEPT !.deals_found = IF snd.delivered
                                              THEN Append(@, deal) ELSE @,
                              !.invoked = Append(@, deal),
                              !.posts = @ + snd.posts,
                              !.attempts = snd.posts,
                              !.products = IF snd.raised THEN 0 ELSE left,
                              !.pc = IF snd.raised THEN "return" ELSE after]
            ELSE [s EXCEPT !.products = left, !.attempts = 0, !.pc = after]
    ELSE s

\* lines 88-137: one iteration of the for loop
ProcessStep(s, webhook, f, outcome) ==
    IF s.pc = "for"
    THEN LET r == Extract(s.site, f)
             left == s.products - 1
             after == IF left = 0 THEN "paginate" ELSE "for"
         IN IF Accepted(r)
            THEN LET deal == deal_item(s.site, r)
                     snd == send_to_discord(webhook, outcome)
                 IN [s EXCEPT !.deals_found = Append(@, deal),
                              !.invoked = Append(@, deal),
                              !.posts = @ + snd.posts,
                              !.attempts = snd.posts,
                              !.products = IF snd.raised THEN 0 ELSE left,
                              !.pc = IF snd.raised THEN "return" ELSE after]
            ELSE [s EXCEPT !.products = left, !.attempts = 0, !.pc = after]
    ELSE s

\* lines 142-163: look for the next page
PaginateStep(s, p) ==
    IF s.pc = "paginate"
    THEN LET t == NextTarget(s.site, p)
         IN IF t # <<>>
            THEN [s EXCEPT !.current_url = t[1], !.page_num = @ + 1,
                           !.pc = "while"]
            ELSE [s EXCEPT !.pc = "return"]
    ELSE s

\* line 171
ReturnStep(s) ==
    IF s.pc = "return"
    THEN [s EXCEPT !.result = s.deals_found, !.pc = "returned"]
    ELSE s

\* lines 296-299: keep the first list, call the second scraper
CallLatestDealsStep(s) ==
    IF s.pc = "returned" /\ s.site = "HotUKDeals"
    THEN NewCall("LatestDeals", 1, s.result, s.invoked, s.posts)
    ELSE s

\* lines 299-305: keep the second list, report the count
SummaryStep(s) ==
    IF s.pc = "returned" /\ s.site = "LatestDeals"
    THEN [s EXCEPT !.ld_deals = s.result,
                   !.total_deals_found = Len(s.hukd_deals) + Len(s.result),
                   !.pc = "exit"]
    ELSE s

\* ------------------------------------------------------------------ Init
\* Either the __main__ block (both scrapers, one page each), or one direct
\* call of a scraper with a page budget.
Init ==
    /\ caller \in {"main", "direct"}
    /\ \E site \in Sites, max_pages \in 0..MaxPages :
          /\ (caller = "main" => site = "HotUKDeals" /\ max_pages = 1)
          /\ frame = [c \in Cfg |-> NewCall(site, max_pages, <<>>, <<>>, 0)]
    /\ last = NoLast

\* --------------------------------------------------------------- actions
LoopExit ==
    /\ \E c \in Cfg : frame[c].pc = "while" /\ ~WhileCond(frame[c])
    /\ frame' = [c \in Cfg |-> ExitStep(frame[c])]
    /\ last' = [NoLast EXCEPT !.kind = "exit"]
    /\ UNCHANGED caller

Fetch ==
    /\ \E c \in Cfg : frame[c].pc = "while" /\ WhileCond(frame[c])
    /\ \E out \in FetchOutcomes :
          /\ frame' = [c \in Cfg |-> FetchStep(frame[c], out)]
          /\ last' = [NoLast EXCEPT !.kind = "fetch", !.fetch = out]
    /\ UNCHANGED caller

ProcessProduct ==
    /\ \E c \in Cfg : frame[c].pc = "for"
    /\ \E f \in Fragments, outcome \in PostOutcomes :
          /\ (~Accepted(Extract(frame[TRUE].site, f)) => outcome = "ok")
          /\ frame' = [c \in Cfg |-> ProcessStep(frame[c], c, f, outcome)]
          /\ last' = [NoLast EXCEPT !.kind = "product", !.frag = f,
                        !.post = IF Accepted(Extract(frame[TRUE].site, f))
                                 THEN outcome ELSE "none"]
    /\ UNCHANGED caller

Paginate ==
    /\ \E c \in Cfg : frame[c].pc = "paginate"
    /\ \E p \in Paginations :
          /\ frame' = [c \in Cfg |-> PaginateStep(frame[c], p)]
          /\ last' = [NoLast EXCEPT !.kind = "paginate", !.pag = p]
    /\ UNCHANGED caller

Return ==
    /\ \E c \in Cfg : frame[c].pc = "return"
    /\ frame' = [c \in Cfg |-> ReturnStep(frame[c])]
    /\ last' = [NoLast EXCEPT !.kind = "return"]
    /\ UNCHANGED caller

MainCallLatestDeals ==
    /\ caller = "main"
    /\ \E c \in Cfg : frame[c].pc = "returned" /\ frame[c].site = "HotUKDeals"
    /\ frame' = [c \in Cfg |-> CallLatestDealsStep(frame[c])]
    /\ last' = [NoLast EXCEPT !.kind = "call"]
    /\ UNCHANGED caller

MainSummary ==
    /\ caller = "main"
    /\ \E c \in Cfg : frame[c].pc = "returned" /\ frame[c].site = "LatestDeals"
    /\ frame' = [c \in Cfg |-> SummaryStep(frame[c])]
    /\ last' = [NoLast EXCEPT !.kind = "summary"]
    /\ UNCHANGED caller

Next ==
    \/ LoopExit
    \/ Fetch
    \/ ProcessProduct
    \/ Paginate
    \/ Return
    \/ MainCallLatestDeals
    \/ MainSummary

Spec == Init /\ [][Next]_vars

\* ================================================================ claims
Stopped == {"return", "returned", "exit"}

Failures == PostOutcomes \ {"ok"}

\* The element the pagination code settles on carries an href.
FoundWithHref(site, p) ==
    IF p.li
    THEN p.a /\ p.href # <<>>
    ELSE site = "HotUKDeals" /\ p.more /\ p.more_href # <<>>

FoundHref(p) == IF p.li THEN p.href[1] ELSE p.more_href[1]

\* C1: a scraper call with page budget max_pages never issues more than
\* max_pages fetches, and with a budget of 1 a call that has stopped has
\* issued exactly one fetch, whatever the page held.
C1_PageBudget ==
    \A c \in Cfg :
        /\ frame[c].fetches <= frame[c].max_pages
        /\ (frame[c].max_pages = 1 /\ frame[c].pc \in Stopped
                => frame[c].fetches = 1)

\* a call with budget 1 has returned after one fetch of a page whose
\* next-page element had an href (the page counter moved to 2)
C1_Witness ==
    /\ frame[TRUE].max_pages = 1
    /\ frame[TRUE].pc = "returned"
    /\ frame[TRUE].page_num = 2
    /\ frame[TRUE].fetches = 1
    /\ frame[TRUE].deals_found # <<>>

\* C2: send_to_discord is invoked at most once for a link within one run.
C2_NotifiedOncePerLink ==
    \A i, j \in 1..Len(frame[TRUE].invoked) :
        i < j => frame[TRUE].invoked[i].link # frame[TRUE].invoked[j].link

\* C3: a delivery whose first attempt is rate limited is attempted exactly
\* twice; a delivery that fails otherwise is attempted exactly once.
C3_RateLimitRetry ==
    last.kind = "product" =>
        /\ (last.post = "rate_limited" => frame[TRUE].attempts = 2)
        /\ (last.post \in {"http_error", "network_error"}
                => frame[TRUE].attempts = 1)

\* C4: processing a listing fragment appends a record and passes it to
\* send_to_discord exactly when none of title, link, price is "N/A";
\* otherwise the list, the invocations and the POSTs stay as they were.
C4_RejectIffUnavailable ==
    [][\A c \in Cfg :
         frame[c].pc = "for" /\ last'.kind = "product" =>
            LET s == frame[c]
                t == frame'[c]
                r == Extract(s.site, last'.frag)
            IN IF r.title = NA \/ r.link = NA \/ r.price = NA
               THEN /\ t.deals_found = s.deals_found
                    /\ t.invoked = s.invoked
                    /\ t.posts = s.posts
               ELSE /\ Len(t.deals_found) = Len(s.deals_found) + 1
                    /\ SubSeq(t.deals_found, 1, Len(s.deals_found)) = s.deals_found
                    /\ t.deals_found[Len(t.deals_found)].title = r.title
                    /\ t.deals_found[Len(t.deals_found)].link = r.link
                    /\ t.deals_found[Len(t.deals_found)].price = r.price
                    /\ t.invoked = Append(s.invoked, t.deals_found[Len(t.deals_found)])
      ]_vars

\* a fragment with a found-but-empty title and price was accepted
C4_Witness ==
    /\ last.kind = "product"
    /\ last.frag.h2 /\ last.frag.a /\ Strip(last.frag.text) = EmptyText
    /\ frame[TRUE].deals_found # <<>>
    /\ frame[TRUE].deals_found[Len(frame[TRUE].deals_found)].title = EmptyText
    /\ frame[TRUE].deals_found[Len(frame[TRUE].deals_found)].price = EmptyText

\* C5: every accepted record has an absolute link.
C5_AcceptedLinkAbsolute ==
    \A c \in Cfg : \A i \in 1..Len(frame[c].deals_found) :
        HasScheme(frame[c].deals_found[i].link)

\* C6: after a fetched page has been processed, the loop goes on to another
\* fetch exactly when the page counter is below max_pages and the pagination
\* element found has an href; the next fetch then requests that href with
\* the counter one higher.  A page without listing fragments stops the loop.
C6_PaginationDecision ==
    [][\A c \in Cfg :
         LET s == frame[c]
             t == frame'[c]
         IN /\ (s.pc = "paginate" /\ last'.kind = "paginate" =>
                  IF FoundWithHref(s.site, last'.pag) /\ s.page_num < s.max_pages
                  THEN /\ t.pc = "while"
                       /\ t.page_num = s.page_num + 1
                       /\ t.page_num <= t.max_pages
                       /\ t.current_url = FoundHref(last'.pag)
                       /\ t.fetches = s.fetches
                  ELSE /\ t.fetches = s.fetches
                       /\ \/ t.pc = "return"
                          \/ t.pc = "while" /\ t.page_num > t.max_pages)
            /\ (s.pc = "while" /\ s.page_num <= s.max_pages =>
                  /\ t.fetches = s.fetches + 1
                  /\ t.requested = s.current_url
                  /\ t.page_num = s.page_num)
            /\ (s.pc = "while" /\ s.page_num > s.max_pages =>
                  t.fetches = s.fetches /\ t.pc = "return")
            /\ (s.pc = "while" /\ last'.kind = "fetch" /\ last'.fetch.n = 0 =>
                  t.pc = "return")
            /\ (s.pc \in Stopped /\ last'.kind # "call" => t.fetches = s.fetches)
      ]_vars

\* the second page is being processed after a load-more href was followed
C6_Witness ==
    /\ frame[TRUE].pc = "for"
    /\ frame[TRUE].page_num = 2
    /\ frame[TRUE].fetches = 2
    /\ frame[TRUE].requested = MoreAbs

\* C7: a failed fetch ends the call: the step leaves the list as it was, no
\* fetch follows, and the call returns the list as it stood at the failure.
C7_FetchFailureTerminal ==
    [][\A c \in Cfg :
         LET s == frame[c]
             t == frame'[c]
         IN /\ (s.pc = "while" /\ last'.kind = "fetch"
                    /\ last'.fetch.status \in FetchErrors =>
                  /\ t.failed
                  /\ t.pc = "return"
                  /\ t.fetches = s.fetches + 1
                  /\ t.deals_found = s.deals_found)
            /\ (s.failed /\ last'.kind # "call" =>
                  /\ t.failed
                  /\ t.pc \in Stopped
                  /\ t.fetches = s.fetches
                  /\ t.deals_found = s.deals_found
                  /\ t.invoked = s.invoked
                  /\ (t.pc = "returned" => t.result = s.deals_found))
      ]_vars

\* the fetch of page 2 failed and the call returned the records of page 1
C7_Witness ==
    /\ frame[TRUE].failed
    /\ frame[TRUE].pc = "returned"
    /\ frame[TRUE].fetches = 2
    /\ HasScheme(frame[TRUE].requested)
    /\ frame[TRUE].result # <<>>
    /\ frame[TRUE].result = frame[TRUE].deals_found

\* C8: without a webhook URL no POST is issued, and the run fetches the same
\* pages, accepts the same records and returns the same list as the run
\* with a webhook URL on the same page contents.
C8_NoWebhookNoEffect ==
    /\ frame[FALSE].posts = 0
    /\ frame[FALSE].attempts = 0
    /\ frame[FALSE] = [frame[TRUE] EXCEPT !.posts = 0, !.attempts = 0]

\* both runs have returned two pages' records; only the run with a webhook
\* URL issued POSTs
C8_Witness ==
    /\ frame[FALSE].pc = "returned"
    /\ frame[FALSE].fetches = 2
    /\ Len(frame[FALSE].result) >= 2
    /\ frame[TRUE].posts >= 2

\* C9: a failed delivery ends only that record's delivery: the record is in
\* the list, the for loop goes on with the next fragment or, after the last
\* one, with the pagination decision, which is the one the page's elements
\* call for; every invocation issues its POST whatever came before.
C9_DeliveryFailureIsLocal ==
    [][LET s == frame[TRUE]
           t == frame'[TRUE]
       IN /\ (s.pc = "for" /\ last'.kind = "product" /\ last'.post \in Failures =>
                /\ t.deals_found = Append(s.deals_found, t.invoked[Len(t.invoked)])
                /\ t.products = s.products - 1
                /\ t.pc = IF s.products > 1 THEN "for" ELSE "paginate"
                /\ t.page_num = s.page_num
                /\ t.current_url = s.current_url
                /\ t.posts = s.posts + 1)
          /\ (s.pc = "for" /\ last.kind = "product" /\ last.post \in Failures
                  /\ last'.kind = "product" /\ last'.post # "none" =>
                t.posts = s.posts + 1 /\ Len(t.deals_found) = Len(s.deals_found) + 1)
          /\ (s.pc = "paginate" /\ last.kind = "product" /\ last.post \in Failures
                  /\ last'.kind = "paginate" =>
                IF FoundWithHref(s.site, last'.pag)
                THEN /\ t.pc = "while"
                     /\ t.page_num = s.page_num + 1
                     /\ t.current_url = FoundHref(last'.pag)
                     /\ t.deals_found = s.deals_found
                ELSE t.pc = "return" /\ t.deals_found = s.deals_found)
      ]_vars

\* a delivery failed, its record is in the list and a fragment of the same
\* page is still to be processed
C9_Witness ==
    /\ last.kind = "product"
    /\ last.post = "network_error"
    /\ frame[TRUE].pc = "for"
    /\ frame[TRUE].products > 0
    /\ frame[TRUE].deals_found # <<>>
    /\ frame[TRUE].posts = Len(frame[TRUE].invoked)

\* C10: the records collected so far are, in order, the records
\* send_to_discord was invoked with; no fragment of a page is left when the
\* loop comes back for the next fetch; the count of the final summary is the
\* number of invocations made.
C10_FoundEqualsInvoked ==
    \A c \in Cfg :
        /\ frame[c].invoked = frame[c].hukd_deals \o frame[c].deals_found
        /\ (frame[c].pc # "for" => frame[c].products = 0)
        /\ (frame[c].pc = "exit" =>
              frame[c].total_deals_found = Len(frame[c].invoked))

\* __main__ has reported records of both sites
C10_Witness ==
    /\ frame[TRUE].pc = "exit"
    /\ frame[TRUE].hukd_deals # <<>>
    /\ frame[TRUE].ld_deals # <<>>
    /\ frame[TRUE].total_deals_found = Len(frame[TRUE].invoked)
    /\ frame[TRUE].total_deals_found >= 3

====
